---- MODULE Spec2Model ----
(***************************************************************************)
(* Ring-model scoring and search of the protoplanetary disc toolkit:       *)
(* src/functions.py (the library) and src/testplot.py (the MP Mus script   *)
(* with its own copies of the scorers, which read the module-level array   *)
(* qphi).                                                                  *)
(*                                                                         *)
(* Numbers.  Image values and parameters are integers.  A mean (sum /      *)
(* count) is kept as the pair num/den and compared by cross                *)
(* multiplication; IEEE division is correctly rounded, so two quotients of *)
(* small integers are equal floats exactly when the fractions are equal.   *)
(* cos and sin are taken at the angles the model uses: exactly at          *)
(* multiples of 90 degrees and at 60 degrees, by a rational approximation  *)
(* at 1 and 31 degrees, and by a table in units of 10^-6 at the 400        *)
(* sample angles of the ellipse curve.  Each operation is given the angles *)
(* at which this arithmetic decides every truncation and comparison as     *)
(* numpy's floats do (cos(radians(60)) is 0.5000000000000001 in numpy, so  *)
(* 60 degrees is given to the ellipse curve only).                         *)
(***************************************************************************)
EXTENDS Integers, Naturals, Sequences, FiniteSets, TLC

(***************************************************************************)
(* Bounds of the model.                                                    *)
(***************************************************************************)
\* images have between 2 and MaxSize rows and columns
MaxSize == 4
\* radii are 0..MaxR
MaxR == 2
\* thicknesses are 0..MaxTh
MaxTh == 2
\* centre coordinates are 0..MaxCentre
MaxCentre == 1

(***************************************************************************)
(* Program constants.                                                      *)
(***************************************************************************)
\* np.linspace(0, 2*np.pi, 400): the sample count of e_score/score_ellipse
NSamples == 400
\* range(0, 282) of a_score and score_annulus: the side of the square of
\* pixel indices the band scorers scan, whatever the image's shape.  The
\* model's images have 2..MaxSize rows and columns, so the 282 of the
\* source is scaled to 3: images smaller than, equal to and larger than
\* the scanned square all occur.
ScanSize == 3
\* range(0, 282) as the source has it
SourceScan == 282
\* score = 0.001 in a_r_score: the epsilon is 1/EpsDen
EpsDen == 1000
\* qphi = deproject(qphi, 31) of the script
ScriptInc == 31

\* the unit of CosT and SinT
TrigScale == 1000 * 1000


(***************************************************************************)
(* Python and numpy arithmetic.                                            *)
(***************************************************************************)
\* np.int(x) of the quotient num/den (den > 0): truncation toward zero
PyInt(num, den) ==
  IF num >= 0 THEN num \div den ELSE -((-num) \div den)

\* the marker of an index numpy rejects
OutOfRange == -1

\* numpy's index k on an axis of length n: k in 0..n-1 as it is, k in
\* -n..-1 counted from the end, anything else an IndexError
PyIdx(k, n) ==
  IF k >= 0 /\ k < n THEN k
  ELSE IF k < 0 /\ k >= -n THEN k + n
  ELSE OutOfRange

\* np.cos(np.radians(deg)) as <<numerator, denominator>>: exact at 0 and
\* 60 degrees, the continued-fraction approximations 6565/6566 and 6/7 at
\* 1 and 31 degrees
CosDeg(deg) ==
  CASE deg = 0 -> <<1, 1>>
    [] deg = 1 -> <<6565, 6566>>
    [] deg = 31 -> <<6, 7>>
    [] deg = 60 -> <<1, 2>>

\* np.cos(np.radians(rot)) at a multiple of 90 degrees
CosRot(rot) ==
  CASE rot = 0 -> 1 [] rot = 90 -> 0 [] rot = 180 -> -1 [] rot = 270 -> 0

\* np.sin(np.radians(rot)) at a multiple of 90 degrees
SinRot(rot) ==
  CASE rot = 0 -> 0 [] rot = 90 -> 1 [] rot = 180 -> 0 [] rot = 270 -> -1

\* a/b < c/d, a/b = c/d for b, d > 0
RatLt(p, q) == p[1] * q[2] < q[1] * p[2]
RatEq(p, q) == p[1] * q[2] = q[1] * p[2]

(***************************************************************************)
(* Images: a 2D array, data[i, j] with i < len(data), j < len(data[0]).    *)
(***************************************************************************)
Pixels(h, w) == (0 .. h - 1) \X (0 .. w - 1)

MkImage(h, w, px) == [h |-> h, w |-> w, px |-> px]

NoImage == [h |-> 0, w |-> 0, px |-> [p \in {} |-> 0]]

Sizes == 2 .. MaxSize

\* the shapes <<rows, columns>>: square, or one column more than rows
Shapes == {s \in Sizes \X Sizes : s[2] = s[1] \/ s[2] = s[1] + 1}

ZeroImage(h, w) == MkImage(h, w, [p \in Pixels(h, w) |-> 0])
RampImage(h, w) ==
  MkImage(h, w, [p \in Pixels(h, w) |-> 1 + p[1] * w + p[2]])
NegImage(h, w) ==
  MkImage(h, w, [p \in Pixels(h, w) |-> -(1 + p[1] * w + p[2])])

\* the images the callers pass: all zero, all pixels different and
\* positive, all pixels different and negative
Images ==
  UNION {{ZeroImage(s[1], s[2]), RampImage(s[1], s[2]), NegImage(s[1], s[2])} :
           s \in Shapes}

\* data[a, b]: defined when both indices are accepted
InRange(img, a, b) ==
  PyIdx(a, img.h) # OutOfRange /\ PyIdx(b, img.w) # OutOfRange

At(img, a, b) == img.px[<<PyIdx(a, img.h), PyIdx(b, img.w)>>]

\* whether <<a, b>> is a pixel of the image
InImage(img, a, b) == a >= 0 /\ a < img.h /\ b >= 0 /\ b < img.w

(***************************************************************************)
(* cos(t) and sin(t) at t = np.linspace(0, 2*np.pi, 400), in units of      *)
(* 10^-6 and truncated toward zero: entry k is sample k - 1.  Samples 134  *)
(* and 267 are t = 2 pi/3 and 4 pi/3, where numpy gives                    *)
(* -0.4999999999999998 and -0.5000000000000004.                            *)
(***************************************************************************)
CosT ==
  << 1000000, 999876, 999504, 998884, 998016, 996901, 995539, 993930, 992075, 989973,
     987626, 985034, 982198, 979118, 975796, 972231, 968426, 964380, 960095, 955572,
     950812, 945817, 940587, 935123, 929428, 923502, 917347, 910965, 904357, 897524,
     890469, 883193, 875699, 867987, 860059, 851919, 843567, 835006, 826238, 817265,
     808090, 798714, 789140, 779370, 769407, 759254, 748912, 738384, 727673, 716782,
     705713, 694469, 683053, 671467, 659715, 647800, 635723, 623489, 611101, 598561,
     585872, 573038, 560062, 546948, 533697, 520315, 506803, 493165, 479406, 465527,
     451533, 437427, 423212, 408893, 394472, 379953, 365341, 350637, 335847, 320973,
     306020, 290990, 275889, 260719, 245485, 230190, 214837, 199432, 183977, 168476,
     152933, 137353, 121739, 106094, 90423, 74730, 59018, 43291, 27554, 11810,
     -3936, -19682, -35424, -51156, -66876, -82579, -98262, -113920, -129550, -145148,
     -160710, -176232, -191710, -207141, -222520, -237845, -253110, -268313, -283449, -298514,
     -313506, -328420, -343252, -358000, -372659, -387225, -401695, -416066, -430333, -444494,
     -458544, -472481, -486300, -499999, -513575, -527022, -540339, -553522, -566568, -579473,
     -592235, -604849, -617314, -629626, -641781, -653778, -665612, -677281, -688782, -700113,
     -711270, -722250, -733051, -743671, -754106, -764354, -774413, -784279, -793952, -803427,
     -812703, -821777, -830648, -839313, -847769, -856016, -864050, -871870, -879473, -886859,
     -894024, -900968, -907689, -914184, -920453, -926494, -932304, -937884, -943231, -948344,
     -953222, -957863, -962268, -966433, -970359, -974044, -977487, -980689, -983647, -986361,
     -988830, -991055, -993033, -994766, -996251, -997490, -998481, -999225, -999721, -999969,
     -999969, -999721, -999225, -998481, -997490, -996251, -994766, -993033, -991055, -988830,
     -986361, -983647, -980689, -977487, -974044, -970359, -966433, -962268, -957863, -953222,
     -948344, -943231, -937884, -932304, -926494, -920453, -914184, -907689, -900968, -894024,
     -886859, -879473, -871870, -864050, -856016, -847769, -839313, -830648, -821777, -812703,
     -803427, -793952, -784279, -774413, -764354, -754106, -743671, -733051, -722250, -711270,
     -700113, -688782, -677281, -665612, -653778, -641781, -629626, -617314, -604849, -592235,
     -579473, -566568, -553522, -540339, -527022, -513575, -500000, -486300, -472481, -458544,
     -444494, -430333, -416066, -401695, -387225, -372659, -358000, -343252, -328420, -313506,
     -298514, -283449, -268313, -253110, -237845, -222520, -207141, -191710, -176232, -160710,
     -145148, -129550, -113920, -98262, -82579, -66876, -51156, -35424, -19682, -3936,
     11810, 27554, 43291, 59018, 74730, 90423, 106094, 121739, 137353, 152933,
     168476, 183977, 199432, 214837, 230190, 245485, 260719, 275889, 290990, 306020,
     320973, 335847, 350637, 365341, 379953, 394472, 408893, 423212, 437427, 451533,
     465527, 479406, 493165, 506803, 520315, 533697, 546948, 560062, 573038, 585872,
     598561, 611101, 623489, 635723, 647800, 659715, 671467, 683053, 694469, 705713,
     716782, 727673, 738384, 748912, 759254, 769407, 779370, 789140, 798714, 808090,
     817265, 826238, 835006, 843567, 851919, 860059, 867987, 875699, 883193, 890469,
     897524, 904357, 910965, 917347, 923502, 929428, 935123, 940587, 945817, 950812,
     955572, 960095, 964380, 968426, 972231, 975796, 979118, 982198, 985034, 987626,
     989973, 992075, 993930, 995539, 996901, 998016, 998884, 999504, 999876, 1000000 >>

SinT ==
  << 0, 15746, 31489, 47224, 62947, 78655, 94343, 110008, 125645, 141252,
     156823, 172355, 187845, 203288, 218681, 234019, 249299, 264518, 279671, 294755,
     309765, 324699, 339552, 354321, 369002, 383592, 398087, 412482, 426776, 440964,
     455042, 469008, 482857, 496586, 510193, 523672, 537022, 550239, 563320, 576260,
     589058, 601710, 614212, 626562, 638757, 650794, 662669, 674379, 685923, 697296,
     708497, 719522, 730368, 741033, 751515, 761810, 771916, 781831, 791552, 801077,
     810403, 819528, 828450, 837166, 845675, 853974, 862061, 869935, 877593, 885033,
     892254, 899253, 906030, 912582, 918907, 925005, 930873, 936511, 941916, 947088,
     952025, 956725, 961189, 965414, 969400, 973145, 976649, 979911, 982930, 985705,
     988236, 990522, 992562, 994356, 995903, 997203, 998256, 999062, 999620, 999930,
     999992, 999806, 999372, 998690, 997761, 996584, 995160, 993489, 991572, 989409,
     987001, 984348, 981451, 978311, 974927, 971303, 967437, 963331, 958987, 954405,
     949586, 944531, 939242, 933721, 927968, 921985, 915773, 909334, 902670, 895781,
     888671, 881340, 873791, 866025, 858044, 849851, 841446, 832834, 824014, 814990,
     805765, 796339, 786716, 776898, 766887, 756686, 746297, 735723, 724967, 714031,
     702918, 691631, 680172, 668545, 656752, 644795, 632679, 620407, 607980, 595402,
     582677, 569808, 556797, 543648, 530364, 516949, 503405, 489737, 475947, 462039,
     448017, 433883, 419642, 405297, 390851, 376309, 361673, 346947, 332136, 317242,
     302269, 287222, 272103, 256917, 241667, 226357, 210991, 195572, 180106, 164594,
     149042, 133452, 117830, 102179, 86502, 70803, 55087, 39358, 23618, 7873,
     -7873, -23618, -39358, -55087, -70803, -86502, -102179, -117830, -133452, -149042,
     -164594, -180106, -195572, -210991, -226357, -241667, -256917, -272103, -287222, -302269,
     -317242, -332136, -346947, -361673, -376309, -390851, -405297, -419642, -433883, -448017,
     -462039, -475947, -489737, -503405, -516949, -530364, -543648, -556797, -569808, -582677,
     -595402, -607980, -620407, -632679, -644795, -656752, -668545, -680172, -691631, -702918,
     -714031, -724967, -735723, -746297, -756686, -766887, -776898, -786716, -796339, -805765,
     -814990, -824014, -832834, -841446, -849851, -858044, -866025, -873791, -881340, -888671,
     -895781, -902670, -909334, -915773, -921985, -927968, -933721, -939242, -944531, -949586,
     -954405, -958987, -963331, -967437, -971303, -974927, -978311, -981451, -984348, -987001,
     -989409, -991572, -993489, -995160, -996584, -997761, -998690, -999372, -999806, -999992,
     -999930, -999620, -999062, -998256, -997203, -995903, -994356, -992562, -990522, -988236,
     -985705, -982930, -979911, -976649, -973145, -969400, -965414, -961189, -956725, -952025,
     -947088, -941916, -936511, -930873, -925005, -918907, -912582, -906030, -899253, -892254,
     -885033, -877593, -869935, -862061, -853974, -845675, -837166, -828450, -819528, -810403,
     -801077, -791552, -781831, -771916, -761810, -751515, -741033, -730368, -719522, -708497,
     -697296, -685923, -674379, -662669, -650794, -638757, -626562, -614212, -601710, -589058,
     -576260, -563320, -550239, -537022, -523672, -510193, -496586, -482857, -469008, -455042,
     -440964, -426776, -412482, -398087, -383592, -369002, -354321, -339552, -324699, -309765,
     -294755, -279671, -264518, -249299, -234019, -218681, -203288, -187845, -172355, -156823,
     -141252, -125645, -110008, -94343, -78655, -62947, -47224, -31489, -15746, 0 >>

(***************************************************************************)
(* int(100 * exp(-(sqrt(n) - 20)^2 / 8)) for n = 0 .. 1250: entry n + 1 is *)
(* the brightness test_map(20, 4, 0, 0, 25, 25, 100, 0, 50) stores at a    *)
(* pixel whose squared distance from the centre is n.                      *)
(***************************************************************************)
RingT ==
  << 0, 0, 0, 0, 0, 0, 0, 0, 0, 0, 0, 0, 0, 0, 0, 0, 0, 0, 0, 0, 0, 0, 0,
     0, 0, 0, 0, 0, 0, 0, 0, 0, 0, 0, 0, 0, 0, 0, 0, 0, 0, 0, 0, 0, 0, 0,
     0, 0, 0, 0, 0, 0, 0, 0, 0, 0, 0, 0, 0, 0, 0, 0, 0, 0, 0, 0, 0, 0, 0,
     0, 0, 0, 0, 0, 0, 0, 0, 0, 0, 0, 0, 0, 0, 0, 0, 0, 0, 0, 0, 0, 0, 0,
     0, 0, 0, 0, 0, 0, 0, 0, 0, 0, 0, 0, 0, 0, 0, 0, 0, 0, 0, 0, 0, 0, 0,
     0, 0, 0, 0, 0, 0, 0, 0, 0, 0, 0, 0, 0, 0, 0, 0, 0, 0, 0, 0, 0, 0, 0,
     0, 0, 0, 0, 0, 0, 0, 0, 0, 0, 0, 0, 0, 0, 0, 0, 0, 0, 0, 0, 0, 0, 0,
     0, 0, 0, 0, 0, 0, 0, 0, 0, 0, 0, 0, 0, 0, 0, 0, 0, 0, 0, 0, 0, 0, 0,
     0, 0, 0, 0, 0, 0, 0, 0, 0, 0, 0, 1, 1, 1, 1, 1, 1, 1, 1, 1, 1, 1, 1,
     1, 2, 2, 2, 2, 2, 2, 2, 2, 2, 3, 3, 3, 3, 3, 3, 4, 4, 4, 4, 4, 4, 5,
     5, 5, 5, 6, 6, 6, 6, 7, 7, 7, 7, 8, 8, 8, 9, 9, 9, 10, 10, 10, 11,
     11, 11, 12, 12, 13, 13, 13, 14, 14, 15, 15, 16, 16, 17, 17, 18, 18,
     19, 19, 20, 20, 21, 22, 22, 23, 23, 24, 25, 25, 26, 26, 27, 28, 28,
     29, 30, 31, 31, 32, 33, 33, 34, 35, 36, 36, 37, 38, 39, 39, 40, 41,
     42, 43, 43, 44, 45, 46, 47, 48, 48, 49, 50, 51, 52, 53, 53, 54, 55,
     56, 57, 58, 58, 59, 60, 61, 62, 63, 64, 64, 65, 66, 67, 68, 68, 69,
     70, 71, 72, 72, 73, 74, 75, 76, 76, 77, 78, 79, 79, 80, 81, 81, 82,
     83, 83, 84, 85, 85, 86, 87, 87, 88, 88, 89, 89, 90, 90, 91, 92, 92,
     92, 93, 93, 94, 94, 95, 95, 95, 96, 96, 96, 97, 97, 97, 97, 98, 98,
     98, 98, 99, 99, 99, 99, 99, 99, 99, 99, 99, 99, 99, 100, 99, 99, 99,
     99, 99, 99, 99, 99, 99, 99, 99, 98, 98, 98, 98, 98, 97, 97, 97, 96,
     96, 96, 96, 95, 95, 95, 94, 94, 93, 93, 93, 92, 92, 91, 91, 90, 90,
     89, 89, 88, 88, 87, 87, 86, 86, 85, 84, 84, 83, 83, 82, 81, 81, 80,
     80, 79, 78, 78, 77, 76, 76, 75, 74, 74, 73, 72, 72, 71, 70, 70, 69,
     68, 68, 67, 66, 66, 65, 64, 64, 63, 62, 62, 61, 60, 59, 59, 58, 57,
     57, 56, 55, 55, 54, 53, 53, 52, 51, 51, 50, 49, 49, 48, 47, 47, 46,
     45, 45, 44, 44, 43, 42, 42, 41, 40, 40, 39, 39, 38, 38, 37, 36, 36,
     35, 35, 34, 34, 33, 32, 32, 31, 31, 30, 30, 29, 29, 28, 28, 27, 27,
     26, 26, 26, 25, 25, 24, 24, 23, 23, 22, 22, 22, 21, 21, 20, 20, 20,
     19, 19, 19, 18, 18, 17, 17, 17, 16, 16, 16, 15, 15, 15, 15, 14, 14,
     14, 13, 13, 13, 12, 12, 12, 12, 11, 11, 11, 11, 10, 10, 10, 10, 10,
     9, 9, 9, 9, 8, 8, 8, 8, 8, 8, 7, 7, 7, 7, 7, 6, 6, 6, 6, 6, 6, 6, 5,
     5, 5, 5, 5, 5, 5, 4, 4, 4, 4, 4, 4, 4, 4, 4, 3, 3, 3, 3, 3, 3, 3, 3,
     3, 3, 3, 2, 2, 2, 2, 2, 2, 2, 2, 2, 2, 2, 2, 2, 2, 2, 2, 1, 1, 1, 1,
     1, 1, 1, 1, 1, 1, 1, 1, 1, 1, 1, 1, 1, 1, 1, 1, 1, 1, 1, 1, 0, 0, 0,
     0, 0, 0, 0, 0, 0, 0, 0, 0, 0, 0, 0, 0, 0, 0, 0, 0, 0, 0, 0, 0, 0, 0,
     0, 0, 0, 0, 0, 0, 0, 0, 0, 0, 0, 0, 0, 0, 0, 0, 0, 0, 0, 0, 0, 0, 0,
     0, 0, 0, 0, 0, 0, 0, 0, 0, 0, 0, 0, 0, 0, 0, 0, 0, 0, 0, 0, 0, 0, 0,
     0, 0, 0, 0, 0, 0, 0, 0, 0, 0, 0, 0, 0, 0, 0, 0, 0, 0, 0, 0, 0, 0, 0,
     0, 0, 0, 0, 0, 0, 0, 0, 0, 0, 0, 0, 0, 0, 0, 0, 0, 0, 0, 0, 0, 0, 0,
     0, 0, 0, 0, 0, 0, 0, 0, 0, 0, 0, 0, 0, 0, 0, 0, 0, 0, 0, 0, 0, 0, 0,
     0, 0, 0, 0, 0, 0, 0, 0, 0, 0, 0, 0, 0, 0, 0, 0, 0, 0, 0, 0, 0, 0, 0,
     0, 0, 0, 0, 0, 0, 0, 0, 0, 0, 0, 0, 0, 0, 0, 0, 0, 0, 0, 0, 0, 0, 0,
     0, 0, 0, 0, 0, 0, 0, 0, 0, 0, 0, 0, 0, 0, 0, 0, 0, 0, 0, 0, 0, 0, 0,
     0, 0, 0, 0, 0, 0, 0, 0, 0, 0, 0, 0, 0, 0, 0, 0, 0, 0, 0, 0, 0, 0, 0,
     0, 0, 0, 0, 0, 0, 0, 0, 0, 0, 0, 0, 0, 0, 0, 0, 0, 0, 0, 0, 0, 0, 0,
     0, 0, 0, 0, 0, 0, 0, 0, 0, 0, 0, 0, 0, 0, 0, 0, 0, 0, 0, 0, 0, 0, 0,
     0, 0, 0, 0, 0, 0, 0, 0, 0, 0, 0, 0, 0, 0, 0, 0, 0, 0, 0, 0, 0, 0, 0,
     0, 0, 0, 0, 0, 0, 0, 0, 0, 0, 0, 0, 0, 0, 0, 0, 0, 0, 0, 0, 0, 0, 0,
     0, 0, 0, 0, 0, 0, 0, 0, 0, 0, 0, 0, 0, 0, 0, 0, 0, 0, 0, 0, 0, 0, 0,
     0, 0, 0, 0, 0, 0, 0, 0, 0, 0, 0, 0, 0, 0, 0, 0, 0, 0, 0, 0, 0, 0, 0,
     0, 0, 0, 0, 0, 0, 0, 0, 0, 0, 0, 0, 0, 0, 0, 0, 0, 0, 0, 0, 0, 0, 0,
     0, 0, 0, 0, 0, 0, 0, 0, 0, 0, 0, 0, 0, 0, 0, 0, 0, 0, 0, 0, 0, 0, 0,
     0, 0, 0, 0, 0, 0, 0, 0, 0, 0, 0, 0, 0, 0, 0, 0, 0, 0, 0, 0, 0, 0, 0,
     0, 0, 0, 0, 0, 0, 0, 0, 0, 0, 0, 0, 0, 0, 0, 0, 0, 0, 0, 0, 0, 0, 0,
     0, 0, 0, 0, 0, 0, 0, 0, 0, 0, 0, 0, 0, 0, 0, 0, 0, 0, 0, 0, 0, 0, 0,
     0, 0, 0, 0, 0, 0, 0, 0, 0, 0, 0, 0, 0, 0, 0, 0, 0, 0, 0, 0, 0, 0, 0,
     0, 0, 0, 0, 0, 0, 0, 0, 0, 0, 0, 0, 0, 0, 0, 0, 0, 0, 0, 0, 0, 0, 0,
     0, 0, 0, 0, 0, 0, 0, 0, 0, 0, 0, 0, 0, 0, 0, 0, 0, 0, 0, 0, 0, 0, 0,
     0, 0, 0, 0, 0, 0, 0, 0, 0, 0, 0, 0, 0, 0, 0, 0 >>

(***************************************************************************)
(* Ellipse curve scoring.                                                  *)
(***************************************************************************)
\* the domains of the ellipse parameters
Radii == 0 .. MaxR
Centres == 0 .. MaxCentre
EIncs == {0, 60}
Rots == {0, 90}

\* Ell_rot[:, k] truncated: <<np.int(Ell_rot[0,k]), np.int(Ell_rot[1,k])>>
\* for sample k (1..NSamples) of the ellipse (r, inc, rot), where
\* Ell = (r cos t, r cos(inc) sin t) and Ell_rot = R_rot . Ell
SampleOffset(r, inc, rot, k) ==
  LET cn == CosDeg(inc)[1]
      cd == CosDeg(inc)[2]
      c  == CosRot(rot)
      s  == SinRot(rot)
      ex == r * CosT[k] * cd
      ey == r * cn * SinT[k]
  IN  <<PyInt(c * ex - s * ey, cd * TrigScale),
        PyInt(s * ex + c * ey, cd * TrigScale)>>

\* the function f with its values computed once
Explicit(f) == f @@ <<>>

\* the ellipse geometries of the model
EllGeoms == Radii \X EIncs \X Rots

\* for every ellipse geometry <<r, inc, rot>> of the model, the offsets its
\* samples truncate to, each with the number of samples that do
EllHits ==
  Explicit([g \in EllGeoms |->
     LET offs == Explicit([k \in 1 .. NSamples |->
                             SampleOffset(g[1], g[2], g[3], k)])
     IN  Explicit([o \in {offs[k] : k \in 1 .. NSamples} |->
                     Cardinality({k \in 1 .. NSamples : offs[k] = o})])])

\* the offsets some sample of the ellipse truncates to
HitOffsets(r, inc, rot) == DOMAIN EllHits[<<r, inc, rot>>]

\* <<sq_y, sq_x>> of a sample with offset o: the index the scorer uses
SampleIndex(x_m, y_m, o) == <<PyInt(y_m, 1) + o[2], PyInt(x_m, 1) + o[1]>>

\* the indices <<sq_y, sq_x>> the loop over the samples computes
CurveIndices(r, inc, rot, x_m, y_m) ==
  {SampleIndex(x_m, y_m, o) : o \in HitOffsets(r, inc, rot)}

\* what a scorer hands back: status "ok" with the value num/den, or the
\* exception it raised; oob tells whether it computed an index outside the
\* image
ScoreOut(status, num, den, oob) ==
  [status |-> status, num |-> num, den |-> den, oob |-> oob,
   tup |-> <<>>, img |-> NoImage]

\* the sum of f over the finite set S
RECURSIVE SumOver(_, _)
SumOver(f, S) ==
  IF S = {} THEN 0
  ELSE LET x == CHOOSE y \in S : TRUE
       IN  f[x] + SumOver(f, S \ {x})

\* whether some index of the set lies outside the image
AnyOutside(data, idx) == \E p \in idx : ~InImage(data, p[1], p[2])

\* whether numpy rejects some index of the set (IndexError)
AnyRejected(data, idx) == \E p \in idx : ~InRange(data, p[1], p[2])

\* e_score: mask[sq_y, sq_x] is read at every sample but never written, so
\* score += data[sq_y, sq_x] runs at every sample: each offset adds its
\* pixel once per sample that truncates to it
e_score(r, inc, rot, x_m, y_m, data) ==
  LET hits == HitOffsets(r, inc, rot)
      idx  == CurveIndices(r, inc, rot, x_m, y_m)
      add  == [o \in hits |->
                 LET p == SampleIndex(x_m, y_m, o)
                 IN  EllHits[<<r, inc, rot>>][o] * At(data, p[1], p[2])]
  IN  IF AnyRejected(data, idx)
        THEN ScoreOut("IndexError", 0, 1, AnyOutside(data, idx))
        ELSE ScoreOut("ok", SumOver(add, hits), 1, AnyOutside(data, idx))

\* score_ellipse: a sample whose mask cell is set is skipped, any other
\* adds its pixel and sets the cell: each cell of the array that a sample
\* reaches (a negative index reaches the cell counted from the end) is
\* added once
score_ellipse(r, inc, t_rot, x_m, y_m, data) ==
  LET idx   == CurveIndices(r, inc, t_rot, x_m, y_m)
      cells == {<<PyIdx(p[1], data.h), PyIdx(p[2], data.w)>> : p \in idx}
  IN  IF AnyRejected(data, idx)
        THEN ScoreOut("IndexError", 0, 1, AnyOutside(data, idx))
        ELSE ScoreOut("ok", SumOver(data.px, cells), 1,
                      AnyOutside(data, idx))

(***************************************************************************)
(* Annulus band scoring.                                                   *)
(***************************************************************************)
\* the domains of the annulus parameters.  Angles at which numpy's cos or
\* sin is off by its last bit (cos(radians(60)) is one bit above 1/2,
\* cos(radians(90)) is 6e-17) are left to the ellipse curve, where that bit
\* never decides a truncation: in the band tests it decides the
\* comparisons that are ties in real arithmetic.
Thicknesses == 0 .. MaxTh
AIncs == {0, 1, 31}
ARots == {0}

\* rotate(i, j, x_m, y_m, rot) = <<x, y>>
rotate(i, j, x_m, y_m, rot) ==
  LET c == CosRot(rot)
      s == SinRot(rot)
  IN  <<i * c - j * s - x_m * c + y_m * s,
        j * c + i * s - y_m * c - x_m * s>>

\* a_z(i, j, inc, rot, x_m, y_m) squared, as <<numerator, denominator>>:
\* z = sqrt(x**2 + (y**2)/cos(inc))
a_z(i, j, inc, rot, x_m, y_m) ==
  LET xy == rotate(i, j, x_m, y_m, rot)
      cn == CosDeg(inc)[1]
      cd == CosDeg(inc)[2]
  IN  <<xy[1] * xy[1] * cn + xy[2] * xy[2] * cd, cn>>

\* z > b/2 and z < b/2 for z >= 0 given by its square zz
ZGt(zz, b) == b < 0 \/ 4 * zz[1] > b * b * zz[2]
ZLt(zz, b) == b > 0 /\ 4 * zz[1] < b * b * zz[2]

\* the band test with its two comparisons exchanged:
\* z < r - th/2 and z > r + th/2
InBand_exchanged(i, j, r, th, inc, rot, x_m, y_m) ==
  LET zz == a_z(i, j, inc, rot, x_m, y_m)
  IN  ZLt(zz, 2 * r - th) /\ ZGt(zz, 2 * r + th)

\* the test of a_score and a_surf_map: z > r - th/2 and z < r + th/2
InBand(i, j, r, th, inc, rot, x_m, y_m) ==
  LET zz == a_z(i, j, inc, rot, x_m, y_m)
  IN  ZGt(zz, 2 * r - th) /\ ZLt(zz, 2 * r + th)

\* the square of indices range(0, 282) x range(0, 282) scans
Scanned == (0 .. ScanSize - 1) \X (0 .. ScanSize - 1)

\* if th < 1: th = 1
ClampTh(th) == IF th < 1 THEN 1 ELSE th

\* score/mask_no after: if mask_no == 0: mask_no = 1
Mean(score, mask_no) == <<score, IF mask_no = 0 THEN 1 ELSE mask_no>>

\* the square of indices a scan of side n visits
ScanOf(n) == (0 .. n - 1) \X (0 .. n - 1)

\* the sum of f over the set S of pairs, row by row
SumByRow(f, S) ==
  LET rows == {p[1] : p \in S}
      part == [i \in rows |-> SumOver(f, {p \in S : p[1] = i})]
  IN  SumOver(part, rows)

\* mask = np.full((len(data), len(data[0])), False): the shape of the mask
\* of a_score
a_score_mask(data) == <<data.h, data.w>>

\* a_score with range(0, scan) for its two loops, i outside and j inside:
\* every index <<i, j>> of the scanned square whose z is in the band reads
\* mask[i, j] and adds data[i, j]; no index is visited twice
a_score_at(scan, r, th, inc, rot, x_m, y_m, data) ==
  LET th1  == ClampTh(th)
      band == UNION {{<<i, j>> : j \in {k \in 0 .. scan - 1 :
                        InBand(i, k, r, th1, inc, rot, x_m, y_m)}} :
                     i \in 0 .. scan - 1}
  IN  IF AnyRejected(data, band)
        THEN ScoreOut("IndexError", 0, 1, AnyOutside(data, band))
        ELSE LET m == Mean(SumByRow(data.px, band), Cardinality(band))
             IN  ScoreOut("ok", m[1], m[2], AnyOutside(data, band))

\* a_score on the images of the model, its scan scaled with them
a_score(r, th, inc, rot, x_m, y_m, data) ==
  a_score_at(ScanSize, r, th, inc, rot, x_m, y_m, data)

\* the z of score_annulus, as <<numerator, denominator>>: the rotation of
\* rotate written out, x**2 + (y/cos(inc))**2 with no square root
score_annulus_z(i, j, inc, t_rot, x_m, y_m) ==
  LET xy == rotate(i, j, x_m, y_m, t_rot)
      cn == CosDeg(inc)[1]
      cd == CosDeg(inc)[2]
  IN  <<xy[1] * xy[1] * cn * cn + xy[2] * xy[2] * cd * cd, cn * cn>>

\* the test of score_annulus: z < r - th/2 and z < r + th/2
score_annulus_test(i, j, r, th, inc, t_rot, x_m, y_m) ==
  LET z == score_annulus_z(i, j, inc, t_rot, x_m, y_m)
  IN  /\ 2 * z[1] < (2 * r - th) * z[2]
      /\ 2 * z[1] < (2 * r + th) * z[2]

\* mask = np.full((len(qphi), len(qphi[0])), False): the shape of the mask
\* of score_annulus
score_annulus_mask(q) == <<q.h, q.w>>

\* the indices of the scanned square that pass the test of score_annulus
score_annulus_band(r, th, inc, t_rot, x_m, y_m) ==
  {p \in Scanned :
     score_annulus_test(p[1], p[2], r, th, inc, t_rot, x_m, y_m)}

\* score_annulus: the mask has the shape of qphi and the pixels added are
\* qphi's; data is not read
score_annulus(r, th, inc, t_rot, x_m, y_m, data, q) ==
  LET band == score_annulus_band(r, th, inc, t_rot, x_m, y_m)
      m    == Mean(SumOver(q.px, band), Cardinality(band))
  IN  IF AnyRejected(q, band)
        THEN ScoreOut("IndexError", 0, 1, AnyOutside(q, band))
        ELSE ScoreOut("ok", m[1], m[2], AnyOutside(q, band))

(***************************************************************************)
(* Reciprocal cost functions.                                              *)
(***************************************************************************)
\* 1/score of a scorer's result that is a numpy scalar: an exception of
\* the scorer propagates; 1/0 warns "divide by zero" and gives inf (status
\* "inf"); the sign is kept in the numerator
Reciprocal(out) ==
  IF out.status # "ok" THEN out
  ELSE IF out.num = 0 THEN ScoreOut("inf", 0, 0, out.oob)
  ELSE IF out.num > 0 THEN ScoreOut("ok", out.den, out.num, out.oob)
  ELSE ScoreOut("ok", -out.den, -out.num, out.oob)

\* if score == 0: score = 0.001
ZeroGuard(out) ==
  IF out.status = "ok" /\ out.num = 0
    THEN ScoreOut("ok", 1, EpsDen, out.oob)
    ELSE out

e_r_score(init, data) ==
  Reciprocal(e_score(init[1], init[2], init[3], init[4], init[5], data))

a_r_score(init, data) ==
  Reciprocal(ZeroGuard(a_score(init[1], init[2], init[3], init[4], init[5],
                               init[6], data)))

recip_score_ellipse(init, data) ==
  Reciprocal(score_ellipse(init[1], init[2], init[3], init[4], init[5], data))

\* score_annulus with no pixel in the band returns the Python float 0/1,
\* and 1/0.0 raises ZeroDivisionError
recip_score_annulus(init, data, q) ==
  LET out == score_annulus(init[1], init[2], init[3], init[4], init[5],
                           init[6], data, q)
  IN  IF /\ out.status = "ok"
         /\ score_annulus_band(init[1], init[2], init[3], init[4], init[5],
                               init[6]) = {}
        THEN ScoreOut("ZeroDivisionError", 0, 0, out.oob)
        ELSE Reciprocal(out)

(***************************************************************************)
(* Grid search.  A box is <<min_1, max_1, ..., min_n, max_n>>; a           *)
(* combination and a cell of score_list are n-tuples.                      *)
(***************************************************************************)
BoxDim(box) == Len(box) \div 2
BoxMin(box, d) == box[2 * d - 1]
BoxMax(box, d) == box[2 * d]

\* the product of the sets rng[1], ..., rng[n] for n = 5 or 6
Product(rng) ==
  IF Len(rng) = 5
    THEN rng[1] \X rng[2] \X rng[3] \X rng[4] \X rng[5]
    ELSE rng[1] \X rng[2] \X rng[3] \X rng[4] \X rng[5] \X rng[6]

\* the nested loops: range(min, max) in every dimension
Combos(box) ==
  Product([d \in 1 .. BoxDim(box) |-> BoxMin(box, d) .. BoxMax(box, d) - 1])

\* np.zeros((max_1 - min_1, ..., max_n - min_n)): the cells of the array
Cells(box) ==
  Product([d \in 1 .. BoxDim(box) |->
             0 .. BoxMax(box, d) - BoxMin(box, d) - 1])

\* C order of the cells: the first axis varies slowest
RECURSIVE CBefore(_, _, _)
CBefore(a, b, d) ==
  IF d > Len(a) THEN FALSE
  ELSE a[d] < b[d] \/ (a[d] = b[d] /\ CBefore(a, b, d + 1))

\* np.unravel_index(score_list.argmax(), score_list.shape): the first cell
\* in C order that holds the maximum
ArgMax(score_list) ==
  LET best == {c \in DOMAIN score_list :
                 \A d \in DOMAIN score_list :
                    ~RatLt(score_list[c], score_list[d])}
  IN  CHOOSE c \in best : \A d \in best : d = c \/ CBefore(c, d, 1)

\* the offset of combination c from the minima, axis d holding parameter
\* perm[d]
OffsetCell(box, c, perm) ==
  [d \in 1 .. BoxDim(box) |-> c[perm[d]] - BoxMin(box, perm[d])]

\* what a grid search hands back: the best combination, or the exception
GridOut(status, tup) ==
  [status |-> status, num |-> 0, den |-> 1, oob |-> FALSE,
   tup |-> tup, img |-> NoImage]

\* a grid search over box: outs[c] is the scorer's result for combination
\* c, written to cell write[c] of the array of cells; the best cell is
\* decoded by adding the minima axis by axis.  A scorer's exception, or a
\* write outside the array, ends the search.
GridSearch(box, outs, write, cells) ==
  LET combos == Combos(box)
      res == Explicit(outs)
      at == Explicit(write)
      score_list ==
        Explicit([cell \in cells |->
           IF \E c \in combos : at[c] = cell
             THEN LET c == CHOOSE c \in combos : at[c] = cell
                  IN  <<res[c].num, res[c].den>>
             ELSE <<0, 1>>])
      max_coords == ArgMax(score_list)
  IN  IF \E c \in combos : res[c].status # "ok"
        THEN GridOut("IndexError", <<>>)
      ELSE IF \E c \in combos : at[c] \notin cells
        THEN GridOut("IndexError", <<>>)
      ELSE GridOut("ok", [d \in 1 .. BoxDim(box) |->
                            max_coords[d] + BoxMin(box, d)])

\* the axes of score_list in the order of the parameters
Straight(n) == [d \in 1 .. n |-> d]

\* score_list[r - r_min, inc - inc_min, rot - rot_min, x_m - x_m_min,
\*            y_m - y_m_min] = this_score
e_best_cell(box, c) == OffsetCell(box, c, Straight(5))

e_best(box, data) ==
  GridSearch(box,
             [c \in Combos(box) |-> e_score(c[1], c[2], c[3], c[4], c[5], data)],
             [c \in Combos(box) |-> e_best_cell(box, c)],
             Cells(box))

best_ellipse_cell(box, c) == OffsetCell(box, c, Straight(5))

best_ellipse(box, data) ==
  GridSearch(box,
             [c \in Combos(box) |->
                score_ellipse(c[1], c[2], c[3], c[4], c[5], data)],
             [c \in Combos(box) |-> best_ellipse_cell(box, c)],
             Cells(box))

\* score_list[r - r_min, th - th_min, inc - inc_min, rot - rot_min,
\*            x_m - x_m_min, y_m - y_m_min] = this_score
a_best_cell(box, c) == OffsetCell(box, c, Straight(6))

a_best(box, data) ==
  GridSearch(box,
             [c \in Combos(box) |->
                a_score(c[1], c[2], c[3], c[4], c[5], c[6], data)],
             [c \in Combos(box) |-> a_best_cell(box, c)],
             Cells(box))

\* score_list[r - r_min, inc - inc_min, th - th_min, t_rot - t_rot_min,
\*            x_m - x_m_min, y_m - y_m_min] = this_score: the array's axes
\* are (r, th, inc, t_rot, x_m, y_m), the write puts inc on axis 2 and th
\* on axis 3
best_annulus_cell(box, c) == OffsetCell(box, c, <<1, 3, 2, 4, 5, 6>>)

best_annulus(box, data, q) ==
  GridSearch(box,
             [c \in Combos(box) |->
                score_annulus(c[1], c[2], c[3], c[4], c[5], c[6], data, q)],
             [c \in Combos(box) |-> best_annulus_cell(box, c)],
             Cells(box))

(***************************************************************************)
(* Deprojection and the flat annulus map.                                  *)
(***************************************************************************)
\* the inclinations deproject is given (at 60 degrees numpy's cos is one
\* bit above 1/2 and np.int(w/cos) is 2w - 1)
DIncs == {0, 1, 31}

\* what an operation that builds an array hands back
ImgOut(status, img) ==
  [status |-> status, num |-> 0, den |-> 1, oob |-> FALSE,
   tup |-> <<>>, img |-> img]

\* the body of deproject for an output of h rows taken from a width w:
\* new_w = np.int(w/cos(inc)), new_data[i, j] = data[i, np.int(j*cos(inc))]
Stretch(data, inc, h, w) ==
  LET cn == CosDeg(inc)[1]
      cd == CosDeg(inc)[2]
      new_w == PyInt(w * cd, cn)
      src(i, j) == <<i, PyInt(j * cn, cd)>>
      f(i, j) == At(data, src(i, j)[1], src(i, j)[2])
  IN  IF \E p \in Pixels(h, new_w) :
            ~InRange(data, src(p[1], p[2])[1], src(p[1], p[2])[2])
        THEN ImgOut("IndexError", NoImage)
        ELSE ImgOut("ok", MkImage(h, new_w,
                           [p \in Pixels(h, new_w) |-> f(p[1], p[2])]))

\* deproject of functions.py: w = len(data[0]), h = len(data)
deproject(data, inc) == Stretch(data, inc, data.h, data.w)

\* deproject of testplot.py: w = len(qphi[0]), h = len(qphi)
deproject_tp(data, inc, q) == Stretch(data, inc, q.h, q.w)

\* the values of surf and back
Surfs == {2}
Backs == {0}

\* a_surf_map: a map of data's shape filled with back; every pixel <<i, j>>
\* of data whose z is in the band writes map[j, i] = surf
a_surf_map(r, th, inc, rot, x_m, y_m, surf, back, data) ==
  LET band == {p \in Pixels(data.h, data.w) :
                 InBand(p[1], p[2], r, th, inc, rot, x_m, y_m)}
      wr   == {<<p[2], p[1]>> : p \in band}
      f(i, j) == IF <<i, j>> \in wr THEN surf ELSE back
  IN  IF AnyRejected(data, wr)
        THEN ImgOut("IndexError", NoImage)
        ELSE ImgOut("ok", MkImage(data.h, data.w,
                           [p \in Pixels(data.h, data.w) |-> f(p[1], p[2])]))

(***************************************************************************)
(* Map generators.                                                         *)
(***************************************************************************)
\* the ring of the recovery test of the specification: test_map(20, 4, 0,
\* 0, 25, 25, 100, 0, 50), scored at its own radius and at wrong_r
Ring ==
  [r |-> 20, th |-> 4, inc |-> 0, rot |-> 0, x_m |-> 25, y_m |-> 25,
   surf |-> 100, back |-> 0, size |-> 50, wrong_r |-> 10]

\* the inclinations and sizes test_map_mie and hg_map are given
MapIncs == {0, 31}
MapSizes == {2, 3}

\* R squared of test_map, as <<numerator, denominator>>:
\* R = np.sqrt(pow(x/np.cos(np.radians(inc)), 2) + pow(y, 2))
test_map_R(i, j, inc, rot, x_m, y_m) ==
  LET xy == rotate(i, j, x_m, y_m, rot)
      cn == CosDeg(inc)[1]
      cd == CosDeg(inc)[2]
  IN  <<xy[1] * xy[1] * cd * cd + xy[2] * xy[2] * cn * cn, cn * cn>>

\* R squared of test_map_mie: the same expression as in test_map
test_map_mie_R(i, j, inc, rot, x_m, y_m) ==
  LET xy == rotate(i, j, x_m, y_m, rot)
      cn == CosDeg(inc)[1]
      cd == CosDeg(inc)[2]
  IN  <<xy[1] * xy[1] * cd * cd + xy[2] * xy[2] * cn * cn, cn * cn>>

\* R squared of hg_map: R = np.sqrt(pow(x, 2) + pow(y/np.cos(inc), 2))
hg_map_R(i, j, inc, rot, x_m, y_m) ==
  LET xy == rotate(i, j, x_m, y_m, rot)
      cn == CosDeg(inc)[1]
      cd == CosDeg(inc)[2]
  IN  <<xy[1] * xy[1] * cn * cn + xy[2] * xy[2] * cd * cd, cn * cn>>

\* surf*np.exp((-pow(R - r, 2))/(2*pow(th/2, 2))) as the integer array
\* np.full((size, size), back) of an integer back stores it: truncated
\* toward zero.  RingT gives it for the r, th and surf of Ring at integer
\* R squared n (entry n + 1), which are the arguments the model gives it.
Gaussian(RR, r, th, surf) ==
  CASE r = Ring.r /\ th = Ring.th /\ surf = Ring.surf /\ RR[2] = 1 ->
         RingT[RR[1] + 1]

\* test_map: a size x size array, cell <<i, j>> holding
\* back + surf * exp(-(R - r)^2 / (2 (th/2)^2))
test_map(r, th, inc, rot, x_m, y_m, surf, back, size) ==
  MkImage(size, size,
          [p \in Pixels(size, size) |->
             back + Gaussian(test_map_R(p[1], p[2], inc, rot, x_m, y_m),
                             r, th, surf)])

\* the map of the Ring
RingMap ==
  test_map(Ring.r, Ring.th, Ring.inc, Ring.rot, Ring.x_m, Ring.y_m,
           Ring.surf, Ring.back, Ring.size)

\* a_score, scanning range(0, 282) as in the source, of the map of the Ring
\* at the Ring's radius and at the wrong one, computed once
RingScores ==
  Explicit([r \in {Ring.r, Ring.wrong_r} |->
              a_score_at(SourceScan, r, Ring.th, Ring.inc, Ring.rot,
                         Ring.x_m, Ring.y_m, RingMap)])

\* the arguments <<r, th, inc, rot, x_m, y_m, size>> of test_map_mie and
\* hg_map in the model
MapArgs == {1} \X {1} \X MapIncs \X ARots \X Centres \X Centres \X MapSizes

\* test_map_mie and hg_map: a size x size array of floats.  Of cell
\* <<i, j>> the model keeps the numerator of R squared over
\* cos(inc) squared, the radius that enters the Gaussian factor
\* exp(-(R - r)^2 / (2 (th/2)^2)); the peak brightness and the exponential
\* are not evaluated.
test_map_mie(r, th, inc, rot, x_m, y_m, size) ==
  MkImage(size, size,
          [p \in Pixels(size, size) |->
             test_map_mie_R(p[1], p[2], inc, rot, x_m, y_m)[1]])

hg_map(r, th, inc, rot, x_m, y_m, size) ==
  MkImage(size, size,
          [p \in Pixels(size, size) |->
             hg_map_R(p[1], p[2], inc, rot, x_m, y_m)[1]])

(***************************************************************************)
(* Residual cost functions.                                                *)
(***************************************************************************)
\* np.sqrt((d)**2) of an integer d
Abs(d) == IF d < 0 THEN -d ELSE d

\* the loop of the residual cost functions: for i in range(len(data)), j
\* in range(len(data[0])): score += np.sqrt((data[i,j] - map[i,j])**2);
\* map[i, j] outside the map raises IndexError
Residual(data, map) ==
  LET px == Pixels(data.h, data.w)
  IN  IF AnyRejected(map, px)
        THEN ScoreOut("IndexError", 0, 1, TRUE)
        ELSE ScoreOut("ok",
                      SumByRow([p \in px |-> Abs(data.px[p] - map.px[p])],
                               px),
                      1, FALSE)

\* a_surf_score: the residual of data against a_surf_map of its shape; an
\* exception of a_surf_map propagates
a_surf_score(init, data) ==
  LET map == a_surf_map(init[1], init[2], init[3], init[4], init[5],
                        init[6], init[7], init[8], data)
  IN  IF map.status # "ok"
        THEN ScoreOut(map.status, 0, 1, TRUE)
        ELSE Residual(data, map.img)


(***************************************************************************)
(* Optimizer wrappers.  scipy.optimize is a library: of a run of minimize  *)
(* or differential_evolution the model keeps its outcomes, an exception of *)
(* the objective function (evaluated at the start point) or an             *)
(* OptimizeResult with some point x and some success flag.                 *)
(***************************************************************************)
\* scipy's OptimizeResult: params['x'] and params['success']
OptimizeResult(x, success) == [x |-> x, success |-> success]

\* no optimizer has run
NoResult == OptimizeResult(<<>>, TRUE)

\* return params['x']
ReturnX(params) == GridOut("ok", params.x)

\* the box <<min_1, max_1, ...>> as its corners
Lower(box) == [d \in 1 .. BoxDim(box) |-> BoxMin(box, d)]
Upper(box) == [d \in 1 .. BoxDim(box) |-> BoxMax(box, d)]

\* the points minimize may end at from init
Moves(init) == {init, [k \in DOMAIN init |-> init[k] + 1]}

\* a run of a wrapper: the OptimizeResult bound to params and what the
\* wrapper hands back
Run(params, out) == [params |-> params, out |-> out]

\* params = scipy.optimize...(fun, ...); return params['x'], for an
\* objective whose first evaluation gives first and a search that may end
\* at any point of xs, converged or not
Wrapper(first, xs) ==
  IF first.status \notin {"ok", "inf"}
    THEN {Run(NoResult, GridOut(first.status, <<>>))}
    ELSE {Run(OptimizeResult(x, s), ReturnX(OptimizeResult(x, s))) :
            x \in xs, s \in BOOLEAN}

e_opt(r, inc, rot, x_m, y_m, data) ==
  LET init == <<r, inc, rot, x_m, y_m>>
  IN  Wrapper(e_r_score(init, data), Moves(init))

a_opt(r, th, inc, rot, x_m, y_m, data) ==
  LET init == <<r, th, inc, rot, x_m, y_m>>
  IN  Wrapper(a_r_score(init, data), Moves(init))

opt_ellipse(r, inc, t_rot, x_m, y_m, data) ==
  LET init == <<r, inc, t_rot, x_m, y_m>>
  IN  Wrapper(recip_score_ellipse(init, data), Moves(init))

opt_annulus(r, th, inc, t_rot, x_m, y_m, data, q) ==
  LET init == <<r, th, inc, t_rot, x_m, y_m>>
  IN  Wrapper(recip_score_annulus(init, data, q), Moves(init))

\* init = [(r_min, r_max), ...]: the search is over the closed box
e_evo(box, data) ==
  Wrapper(e_r_score(Lower(box), data), {Lower(box), Upper(box)})

a_surf_evo(box, data) ==
  Wrapper(a_surf_score(Lower(box), data), {Lower(box), Upper(box)})

(***************************************************************************)
(* The state machine: the script's module-level statements and calls of    *)
(* the functions, one at a time.                                           *)
(***************************************************************************)
VARIABLES
  pc,    \* the script's position: "loaded" (after line 37), "deprojected"
         \* (after line 266)
  qphi,  \* the module-level image of testplot.py
  last,  \* the call in progress: function, arguments, image, result
  params \* the OptimizeResult of the optimizer wrapper in progress

vars == <<pc, qphi, last, params>>

Call(fn, args, image, out) ==
  [fn |-> fn, args |-> args, image |-> image, out |-> out]

NoCall == Call("none", <<>>, NoImage, ScoreOut("ok", 0, 1, FALSE))

\* no call is in progress
Idle == last = NoCall

\* the argument tuples of the calls
EllArgs == Radii \X EIncs \X Rots \X Centres \X Centres
AnnArgs == Radii \X Thicknesses \X AIncs \X ARots \X Centres \X Centres

\* the ranges <<min, max>> of at most two consecutive values of S
Ranges(S) ==
  {<<lo, hi>> \in S \X {x + 1 : x \in S} :
     lo < hi /\ hi - lo <= 2 /\ \A x \in lo .. hi - 1 : x \in S}
Single(S) == {<<x, x + 1>> : x \in S}

\* <<a, b>>, <<c, d>>, ... as the box <<a, b, c, d, ...>>
RECURSIVE Flatten(_)
Flatten(rs) == IF rs = <<>> THEN <<>> ELSE Head(rs) \o Flatten(Tail(rs))

\* the boxes of the grid searches: one or two values of r, th, inc and x_m,
\* one of rot and y_m
EllBoxes ==
  {Flatten(rs) : rs \in Ranges(Radii) \X Single(EIncs) \X Single(Rots)
                         \X Ranges(Centres) \X Single(Centres)}
AnnBoxes ==
  {Flatten(rs) : rs \in Ranges(Radii) \X Ranges(Thicknesses) \X Ranges(AIncs)
                         \X Single(ARots) \X Single(Centres) \X Single(Centres)}

\* the boxes of a_surf_evo: those of the annulus with one surf and one back
SurfBoxes ==
  {box \o Flatten(<<sb[1], sb[2]>>) :
     box \in AnnBoxes, sb \in Single(Surfs) \X Single(Backs)}

\* the images the optimizer wrappers are given
OptImages == {ZeroImage(3, 3), RampImage(3, 3)}

\* the images qphi is loaded with (lines 21 to 37)
Loaded == {RampImage(3, 3), RampImage(2, 3), NegImage(3, 3)}

Init ==
  /\ pc = "loaded"
  /\ qphi \in Loaded
  /\ last = NoCall
  /\ params = NoResult

\* line 266: qphi = deproject(qphi, 31)
Script_deproject ==
  /\ pc = "loaded"
  /\ Idle
  /\ deproject_tp(qphi, ScriptInc, qphi).status = "ok"
  /\ qphi' = deproject_tp(qphi, ScriptInc, qphi).img
  /\ pc' = "deprojected"
  /\ UNCHANGED <<last, params>>

\* a call of fn with arguments a on image data, giving out
Do(fn, a, data, out) ==
  /\ last' = Call(fn, a, data, out)
  /\ UNCHANGED <<pc, qphi, params>>

Call_e_score ==
  /\ Idle
  /\ \E a \in EllArgs, data \in Images :
       Do("e_score", a, data, e_score(a[1], a[2], a[3], a[4], a[5], data))

Call_score_ellipse ==
  /\ Idle
  /\ \E a \in EllArgs, data \in Images :
       Do("score_ellipse", a, data,
          score_ellipse(a[1], a[2], a[3], a[4], a[5], data))
  
Call_a_score ==
  /\ Idle
  /\ \E a \in AnnArgs, data \in Images :
       Do("a_score", a, data,
          a_score(a[1], a[2], a[3], a[4], a[5], a[6], data))
  
Call_score_annulus ==
  /\ Idle
  /\ \E a \in AnnArgs, data \in Images :
       Do("score_annulus", a, data,
          score_annulus(a[1], a[2], a[3], a[4], a[5], a[6], data, qphi))
  
Call_e_r_score ==
  /\ Idle
  /\ \E a \in EllArgs, data \in Images :
       Do("e_r_score", a, data, e_r_score(a, data))

Call_a_r_score ==
  /\ Idle
  /\ \E a \in AnnArgs, data \in Images :
       Do("a_r_score", a, data, a_r_score(a, data))

Call_recip_score_ellipse ==
  /\ Idle
  /\ \E a \in EllArgs, data \in Images :
       Do("recip_score_ellipse", a, data, recip_score_ellipse(a, data))

Call_recip_score_annulus ==
  /\ Idle
  /\ \E a \in AnnArgs, data \in Images :
       Do("recip_score_annulus", a, data, recip_score_annulus(a, data, qphi))

Call_e_best ==
  /\ Idle
  /\ \E box \in EllBoxes, data \in Images :
       Do("e_best", box, data, e_best(box, data))

Call_best_ellipse ==
  /\ Idle
  /\ \E box \in EllBoxes, data \in Images :
       Do("best_ellipse", box, data, best_ellipse(box, data))

Call_a_best ==
  /\ Idle
  /\ \E box \in AnnBoxes, data \in Images :
       Do("a_best", box, data, a_best(box, data))

Call_best_annulus ==
  /\ Idle
  /\ \E box \in AnnBoxes, data \in Images :
       Do("best_annulus", box, data, best_annulus(box, data, qphi))

Call_deproject ==
  /\ Idle
  /\ \E inc \in DIncs, data \in Images :
       Do("deproject", <<inc>>, data, deproject(data, inc))

Call_deproject_tp ==
  /\ Idle
  /\ \E inc \in DIncs, data \in Images :
       Do("deproject_tp", <<inc>>, data, deproject_tp(data, inc, qphi))

Call_a_surf_map ==
  /\ Idle
  /\ \E a \in AnnArgs, surf \in Surfs, back \in Backs, data \in Images :
       Do("a_surf_map", a \o <<surf, back>>, data,
          a_surf_map(a[1], a[2], a[3], a[4], a[5], a[6], surf, back, data))

\* a_score with the source's scan of 282 on the map of the Ring, at the
\* Ring's radius and at the wrong one
Call_a_score_full ==
  /\ Idle
  /\ \E r \in {Ring.r, Ring.wrong_r} :
       Do("a_score_full",
          <<r, Ring.th, Ring.inc, Ring.rot, Ring.x_m, Ring.y_m>>, RingMap,
          RingScores[r])

Call_test_map ==
  /\ Idle
  /\ Do("test_map",
        <<Ring.r, Ring.th, Ring.inc, Ring.rot, Ring.x_m, Ring.y_m,
          Ring.surf, Ring.back, Ring.size>>,
        NoImage, ImgOut("ok", RingMap))

Call_test_map_mie ==
  /\ Idle
  /\ \E a \in MapArgs :
       Do("test_map_mie", a, NoImage,
          ImgOut("ok", test_map_mie(a[1], a[2], a[3], a[4], a[5], a[6],
                                    a[7])))

Call_hg_map ==
  /\ Idle
  /\ \E a \in MapArgs :
       Do("hg_map", a, NoImage,
          ImgOut("ok", hg_map(a[1], a[2], a[3], a[4], a[5], a[6], a[7])))

Call_a_surf_score ==
  /\ Idle
  /\ \E a \in AnnArgs, surf \in Surfs, back \in Backs, data \in Images :
       Do("a_surf_score", a \o <<surf, back>>, data,
          a_surf_score(a \o <<surf, back>>, data))

\* a call of an optimizer wrapper: run is one of its possible runs
DoRun(fn, a, data, run) ==
  /\ last' = Call(fn, a, data, run.out)
  /\ params' = run.params
  /\ UNCHANGED <<pc, qphi>>

Call_e_opt ==
  /\ Idle
  /\ \E a \in EllArgs, data \in OptImages :
       \E run \in e_opt(a[1], a[2], a[3], a[4], a[5], data) :
          DoRun("e_opt", a, data, run)

Call_a_opt ==
  /\ Idle
  /\ \E a \in AnnArgs, data \in OptImages :
       \E run \in a_opt(a[1], a[2], a[3], a[4], a[5], a[6], data) :
          DoRun("a_opt", a, data, run)

Call_opt_ellipse ==
  /\ Idle
  /\ \E a \in EllArgs, data \in OptImages :
       \E run \in opt_ellipse(a[1], a[2], a[3], a[4], a[5], data) :
          DoRun("opt_ellipse", a, data, run)

Call_opt_annulus ==
  /\ Idle
  /\ \E a \in AnnArgs, data \in OptImages :
       \E run \in opt_annulus(a[1], a[2], a[3], a[4], a[5], a[6], data,
                              qphi) :
          DoRun("opt_annulus", a, data, run)

Call_e_evo ==
  /\ Idle
  /\ \E box \in EllBoxes, data \in OptImages :
       \E run \in e_evo(box, data) : DoRun("e_evo", box, data, run)

Call_a_surf_evo ==
  /\ Idle
  /\ \E box \in SurfBoxes, data \in OptImages :
       \E run \in a_surf_evo(box, data) :
          DoRun("a_surf_evo", box, data, run)

\* the call returns to its caller
Return ==
  /\ last # NoCall
  /\ last' = NoCall
  /\ params' = NoResult
  /\ UNCHANGED <<pc, qphi>>

Next ==
  \/ Script_deproject
  \/ Call_e_score
  \/ Call_score_ellipse
  \/ Call_a_score
  \/ Call_score_annulus
  \/ Call_e_r_score
  \/ Call_a_r_score
  \/ Call_recip_score_ellipse
  \/ Call_recip_score_annulus
  \/ Call_e_best
  \/ Call_best_ellipse
  \/ Call_a_best
  \/ Call_best_annulus
  \/ Call_deproject
  \/ Call_deproject_tp
  \/ Call_a_surf_map
  \/ Call_a_score_full
  \/ Call_test_map
  \/ Call_test_map_mie
  \/ Call_hg_map
  \/ Call_a_surf_score
  \/ Call_e_opt
  \/ Call_a_opt
  \/ Call_opt_ellipse
  \/ Call_opt_annulus
  \/ Call_e_evo
  \/ Call_a_surf_evo
  \/ Return

Spec == Init /\ [][Next]_vars

(***************************************************************************)
(* Properties.  last is the call in progress; a property of an operation   *)
(* is stated of every call of it.                                          *)
(***************************************************************************)
IsCall(fns) == last.fn \in fns
Returned == last.out.status = "ok"
Value == <<last.out.num, last.out.den>>

\* the result of the scorer a grid search of that name uses, on
\* combination c
GridScore(fn, c, data, q) ==
  CASE fn = "e_best" -> e_score(c[1], c[2], c[3], c[4], c[5], data)
    [] fn = "best_ellipse" ->
         score_ellipse(c[1], c[2], c[3], c[4], c[5], data)
    [] fn = "a_best" -> a_score(c[1], c[2], c[3], c[4], c[5], c[6], data)
    [] fn = "best_annulus" ->
         score_annulus(c[1], c[2], c[3], c[4], c[5], c[6], data, q)

\* the combination a grid search returned scores at least as much as every
\* combination of its box
ReturnsBest ==
  LET s(c) == GridScore(last.fn, c, last.image, qphi)
      best == s(last.out.tup)
  IN  \A c \in Combos(last.args) :
         ~RatLt(<<best.num, best.den>>, <<s(c).num, s(c).den>>)

\* C1: the combination returned by e_best, a_best, best_ellipse and
\* best_annulus scores the maximum over the combinations of the box.
C1_GridSearchOptimal ==
  IsCall({"e_best", "a_best", "best_ellipse", "best_annulus"}) /\ Returned
    => ReturnsBest

\* C1, the part that holds: e_best, a_best and best_ellipse return a
\* combination that scores the maximum over the box.
C1_StraightGridOptimal ==
  IsCall({"e_best", "a_best", "best_ellipse"}) /\ Returned => ReturnsBest

\* a grid search over more than one combination returned
C1_Witness ==
  /\ IsCall({"e_best", "a_best", "best_ellipse"}) /\ Returned
  /\ Cardinality(Combos(last.args)) > 2
  /\ \E c \in Combos(last.args) :
        RatLt(<<GridScore(last.fn, c, last.image, qphi).num,
                GridScore(last.fn, c, last.image, qphi).den>>,
              <<GridScore(last.fn, last.out.tup, last.image, qphi).num,
                GridScore(last.fn, last.out.tup, last.image, qphi).den>>)

\* the pixels under the sampled locus of the ellipse of the call
Locus ==
  CurveIndices(last.args[1], last.args[2], last.args[3], last.args[4],
               last.args[5])

\* the ellipse of the call has all its sample points inside the image
InBounds == ~AnyOutside(last.image, Locus)

\* C2: for an ellipse whose samples all fall inside the image, e_score and
\* score_ellipse return the sum of the image over the distinct pixels the
\* samples hit.
C2_EachPixelOnce ==
  IsCall({"e_score", "score_ellipse"}) /\ InBounds
    => Returned /\ last.out.num = SumOver(last.image.px, Locus)

\* C2, the part that holds: score_ellipse adds each pixel once.
C2_ScoreEllipseOnce ==
  IsCall({"score_ellipse"}) /\ InBounds
    => Returned /\ last.out.num = SumOver(last.image.px, Locus)

\* score_ellipse scored an in-bounds ellipse with fewer pixels than samples
C2_Witness ==
  /\ IsCall({"score_ellipse"}) /\ InBounds /\ Returned
  /\ Cardinality(Locus) > 1
  /\ last.out.num > 0

\* the image with delta added to every pixel of the set under
AddUnder(img, under, delta) ==
  [img EXCEPT !.px = [p \in DOMAIN img.px |->
                        IF p \in under THEN img.px[p] + delta ELSE img.px[p]]]

\* the values added to the pixels under the locus
Deltas == {-1, 2}

\* the scorer of that name on the arguments of the call
CurveScore(fn, data) ==
  IF fn = "e_score"
    THEN e_score(last.args[1], last.args[2], last.args[3], last.args[4],
                 last.args[5], data)
    ELSE score_ellipse(last.args[1], last.args[2], last.args[3], last.args[4],
                       last.args[5], data)

Linear ==
  \A delta \in Deltas :
     CurveScore(last.fn, AddUnder(last.image, Locus, delta)).num
       = last.out.num + Cardinality(Locus) * delta

\* C3: adding delta to every pixel under the sampled locus of an in-bounds
\* ellipse raises the score of e_score (and score_ellipse) by the number
\* of distinct pixels visited times delta.
C3_AdditiveLinearity ==
  IsCall({"e_score", "score_ellipse"}) /\ InBounds /\ Returned => Linear

\* C3, the part that holds: score_ellipse is linear in that sense.
C3_ScoreEllipseLinear ==
  IsCall({"score_ellipse"}) /\ InBounds /\ Returned => Linear

\* C4: e_r_score, a_r_score, recip_score_ellipse and recip_score_annulus
\* never divide by a raw score of 0: what they return is finite.
C4_ZeroScoreGuard ==
  IsCall({"e_r_score", "a_r_score", "recip_score_ellipse",
          "recip_score_annulus"})
    => last.out.status \notin {"inf", "ZeroDivisionError"}

\* C4, the part that holds: a_r_score returns 1/epsilon for a raw score 0.
C4_ARScoreGuarded ==
  IsCall({"a_r_score"})
    => /\ last.out.status # "inf"
       /\ a_score(last.args[1], last.args[2], last.args[3], last.args[4],
                  last.args[5], last.args[6], last.image).status = "ok"
          /\ a_score(last.args[1], last.args[2], last.args[3], last.args[4],
                     last.args[5], last.args[6], last.image).num = 0
          => Returned /\ RatEq(Value, <<EpsDen, 1>>)

\* the pixels of the image of the call whose deprojected radius z satisfies
\* r - th/2 < z < r + th/2, for the arguments of the call and thickness th
BandOf(th) ==
  {p \in Pixels(last.image.h, last.image.w) :
     InBand(p[1], p[2], last.args[1], th, last.args[3], last.args[4],
            last.args[5], last.args[6])}

\* the image of the call is the square the scan covers
Covered == last.image.h = ScanSize /\ last.image.w = ScanSize

\* the mean of the image over the band, 0 over an empty band
BandMean(th) ==
  Mean(SumOver(last.image.px, BandOf(th)), Cardinality(BandOf(th)))

\* C5: a_score and score_annulus return the mean of the image over exactly
\* the pixels with r - th/2 < z < r + th/2.  (Stated for thickness >= 1,
\* for an image the scan covers and, for score_annulus, for the image that
\* is qphi, so that only the inclusion rule decides.)
C5_BandInclusion ==
  /\ IsCall({"a_score", "score_annulus"})
  /\ last.args[2] >= 1
  /\ Covered
  /\ last.fn = "score_annulus" => last.image = qphi
  => Returned /\ RatEq(Value, BandMean(last.args[2]))

\* C5, the part that holds: a_score, under the same conditions.
C5_AScoreInclusion ==
  IsCall({"a_score"}) /\ last.args[2] >= 1 /\ Covered
    => Returned /\ RatEq(Value, BandMean(last.args[2]))

\* a_score returned the mean over a band of several pixels, not all
C5_Witness ==
  /\ IsCall({"a_score"}) /\ last.args[2] >= 1 /\ Covered /\ Returned
  /\ Cardinality(BandOf(last.args[2])) > 1
  /\ Cardinality(BandOf(last.args[2])) < last.image.h * last.image.w
  /\ last.out.num > 0

\* C6: when no pixel of the image satisfies r - th/2 < z < r + th/2,
\* a_score and score_annulus return 0 and raise no error.  (Stated for
\* thickness >= 1, which a_score does not change.)
C6_DegenerateAnnulus ==
  /\ IsCall({"a_score", "score_annulus"})
  /\ last.args[2] >= 1
  /\ BandOf(last.args[2]) = {}
  => Returned /\ last.out.num = 0

\* C6 for images the scan stays inside: a_score returns 0 for an empty band.
C6_AScoreDegenerate ==
  /\ IsCall({"a_score"})
  /\ last.args[2] >= 1
  /\ last.image.h >= ScanSize /\ last.image.w >= ScanSize
  /\ BandOf(last.args[2]) = {}
  => Returned /\ last.out.num = 0

\* an index clipped to an axis of length n
Clip(k, n) == IF k < 0 THEN 0 ELSE IF k >= n THEN n - 1 ELSE k

\* the scores a curve scorer that clipped its indices could return: the
\* sum over the samples and the sum over the distinct pixels
ClippedScores ==
  LET hits == EllHits[<<last.args[1], last.args[2], last.args[3]>>]
      cell(o) == LET p == SampleIndex(last.args[4], last.args[5], o)
                 IN  <<Clip(p[1], last.image.h), Clip(p[2], last.image.w)>>
  IN  {SumOver([o \in DOMAIN hits |-> hits[o] * last.image.px[cell(o)]],
               DOMAIN hits),
       SumOver(last.image.px, {cell(o) : o \in DOMAIN hits})}

\* C7: a scorer that computes a pixel index outside the image either clips
\* it or raises; it never returns a sum that took in another pixel.
C7_OutOfBoundsExplicit ==
  /\ IsCall({"e_score", "score_ellipse", "a_score", "score_annulus"})
  /\ last.out.oob
  /\ Returned
  => IsCall({"e_score", "score_ellipse"}) /\ last.out.num \in ClippedScores

\* C7, the part that holds: a band scorer that computes an index outside
\* its array raises IndexError.
C7_BandRaises ==
  IsCall({"a_score", "score_annulus"}) /\ last.out.oob
    => last.out.status = "IndexError"

\* the operation of the call with thickness th in place of its own
WithThickness(th) ==
  CASE last.fn = "a_score" ->
         a_score(last.args[1], th, last.args[3], last.args[4], last.args[5],
                 last.args[6], last.image)
    [] last.fn = "score_annulus" ->
         score_annulus(last.args[1], th, last.args[3], last.args[4],
                       last.args[5], last.args[6], last.image, qphi)
    [] last.fn = "a_surf_map" ->
         a_surf_map(last.args[1], th, last.args[3], last.args[4],
                    last.args[5], last.args[6], last.args[7], last.args[8],
                    last.image)

\* C8: a_score, score_annulus and a_surf_map give for a thickness below 1
\* what they give for thickness 1.
C8_ThicknessFloor ==
  IsCall({"a_score", "score_annulus", "a_surf_map"}) /\ last.args[2] < 1
    => last.out = WithThickness(1)

\* C8, the part that holds: a_score clamps a thickness below 1 to 1.
C8_AScoreFloor ==
  IsCall({"a_score"}) /\ last.args[2] < 1 => last.out = WithThickness(1)

\* a_score, given thickness 0, returned the mean of a band of thickness 1
C8_Witness ==
  /\ IsCall({"a_score"}) /\ last.args[2] < 1 /\ Returned
  /\ BandOf(1) # {}
  /\ last.out.num > 0

\* the values the module-level array takes
Globals ==
  Loaded \cup {deproject_tp(q, ScriptInc, q).img : q \in Loaded}

\* the scorer of the call, on the arguments and the image of the call, with
\* the module-level array q
ScorerWith(q) ==
  CASE last.fn = "e_score" -> CurveScore("e_score", last.image)
    [] last.fn = "score_ellipse" -> CurveScore("score_ellipse", last.image)
    [] last.fn = "a_score" ->
         a_score(last.args[1], last.args[2], last.args[3], last.args[4],
                 last.args[5], last.args[6], last.image)
    [] last.fn = "score_annulus" ->
         score_annulus(last.args[1], last.args[2], last.args[3], last.args[4],
                       last.args[5], last.args[6], last.image, q)

\* C9: a scorer's result is decided by its parameters and its image
\* argument: it is the same whatever the module-level array holds.
C9_ScorerPure ==
  IsCall({"e_score", "score_ellipse", "a_score", "score_annulus"})
    => \A q \in Globals : ScorerWith(q) = last.out

\* C9, the part that holds: e_score, score_ellipse and a_score do not read
\* the module-level array.
C9_LibraryScorersPure ==
  IsCall({"e_score", "score_ellipse", "a_score"})
    => \A q \in Globals : ScorerWith(q) = last.out

\* what deproject is to return for the image and inclination of the call:
\* the image itself at 0 degrees; in (0, 90) the same height, the width
\* floor(width / cos), and cell <<i, j>> the in-bounds input cell
\* <<i, floor(j cos)>>
Deprojected ==
  LET inc == last.args[1]
      cn == CosDeg(inc)[1]
      cd == CosDeg(inc)[2]
      out == last.out.img
  IN  /\ Returned
      /\ inc = 0 => out = last.image
      /\ out.h = last.image.h
      /\ out.w = (last.image.w * cd) \div cn
      /\ \A p \in Pixels(out.h, out.w) :
            /\ InImage(last.image, p[1], (p[2] * cn) \div cd)
            /\ out.px[p] = last.image.px[<<p[1], (p[2] * cn) \div cd>>]

\* C10: deproject(image, 0) is the image, and for an inclination in
\* (0, 90) the output has the input's height, the width
\* floor(width / cos(inclination)), and copies in-bounds input cells; for
\* both deproject functions.
C10_Deprojection ==
  IsCall({"deproject", "deproject_tp"}) => Deprojected

\* C10, the part that holds: deproject of functions.py.
C10_LibraryDeprojection ==
  IsCall({"deproject"}) => Deprojected

\* deproject of functions.py widened an image
C10_Witness ==
  /\ IsCall({"deproject"}) /\ Returned
  /\ last.args[1] = ScriptInc
  /\ last.out.img.w > 0
  /\ last.out.img # last.image

\* e_score scored an in-bounds ellipse of several pixels and its score
\* does not rise by the number of pixels times delta
C3_Witness ==
  /\ IsCall({"e_score"}) /\ InBounds /\ Returned
  /\ Cardinality(Locus) > 1
  /\ ~Linear

\* a_r_score replaced a raw score of 0 and returned 1/0.001
C4_Witness ==
  /\ IsCall({"a_r_score"}) /\ Returned
  /\ a_score(last.args[1], last.args[2], last.args[3], last.args[4],
             last.args[5], last.args[6], last.image).num = 0
  /\ RatEq(Value, <<EpsDen, 1>>)

\* a_score returned 0 for an image none of whose pixels is in the band
C6_Witness ==
  /\ IsCall({"a_score"}) /\ Returned
  /\ last.args[2] >= 1
  /\ last.image.h >= ScanSize /\ last.image.w >= ScanSize
  /\ last.image # ZeroImage(last.image.h, last.image.w)
  /\ BandOf(last.args[2]) = {}
  /\ last.out.num = 0

\* a band scorer computed an index outside its array and raised
C7_Witness ==
  /\ IsCall({"a_score", "score_annulus"})
  /\ last.out.oob
  /\ last.out.status = "IndexError"

\* a_score returned a non-zero score while the module-level array was
\* another image than its argument
C9_Witness ==
  /\ IsCall({"a_score"}) /\ Returned
  /\ last.image # qphi
  /\ last.out.num # 0
  /\ pc = "deprojected"

\* the optimizer wrappers
OptWrappers ==
  {"e_opt", "a_opt", "opt_ellipse", "opt_annulus", "e_evo", "a_surf_evo"}

\* C11: what an optimizer wrapper returns tells a converged run from a
\* non-converged one: a run with the other success flag would not have
\* returned the same value.
C11_ConvergenceReported ==
  IsCall(OptWrappers) /\ Returned
    => \A s \in BOOLEAN :
          ReturnX(OptimizeResult(params.x, s)) = last.out
            => s = params.success

\* C11, the part that holds: a wrapper raises only what its objective
\* function raised, never for a run that did not converge.
C11_NoRaiseOnNonConvergence ==
  IsCall(OptWrappers) /\ ~Returned => params = NoResult

\* a wrapper returned from a run that did not converge
C11_Witness ==
  IsCall(OptWrappers) /\ Returned /\ params.success = FALSE

\* C12: on the 50 x 50 map test_map makes of the ring r = 20, th = 4,
\* inc = 0, rot = 0, centre (25, 25), surf = 100, back = 0, a_score at the
\* ring's parameters completes and returns more than a_score at r = 10.
C12_Recovery ==
  IsCall({"a_score_full"}) /\ last.args[1] = Ring.r /\ last.image = RingMap
    => /\ Returned
       /\ RingScores[Ring.wrong_r].status = "ok"
       /\ RatLt(<<RingScores[Ring.wrong_r].num, RingScores[Ring.wrong_r].den>>,
                Value)

\* a_score scored the map of the ring at the ring's radius, over a band of
\* several hundred pixels all inside the map
C12_Witness ==
  /\ IsCall({"a_score_full"}) /\ last.args[1] = Ring.r /\ Returned
  /\ last.image.h = Ring.size
  /\ ~last.out.oob
  /\ last.out.den > 100
  /\ last.out.num > 0

\* the cell of score_list the grid search of that name writes the score of
\* combination c to
GridCell(fn, box, c) ==
  CASE fn = "e_best" -> e_best_cell(box, c)
    [] fn = "best_ellipse" -> best_ellipse_cell(box, c)
    [] fn = "a_best" -> a_best_cell(box, c)
    [] fn = "best_annulus" -> best_annulus_cell(box, c)

\* every combination of the half-open ranges is written to the cell of
\* its offsets from the minima, and what is returned lies in the ranges
EnumeratesBox ==
  LET box == last.args
      n == BoxDim(box)
  IN  /\ \A c \in Combos(box) :
            GridCell(last.fn, box, c) = OffsetCell(box, c, Straight(n))
      /\ Returned =>
           \A d \in 1 .. n :
              BoxMin(box, d) <= last.out.tup[d]
                /\ last.out.tup[d] < BoxMax(box, d)

\* C13: a grid search scores every integer combination of the half-open
\* ranges [min, max), writes each score to the cell of score_list indexed
\* by the combination's offsets from the minima, and returns a tuple with
\* min <= value < max in every dimension.
C13_GridEnumeration ==
  IsCall({"e_best", "a_best", "best_ellipse", "best_annulus"})
    => EnumeratesBox

\* C13, the part that holds: e_best, a_best and best_ellipse.
C13_StraightEnumeration ==
  IsCall({"e_best", "a_best", "best_ellipse"}) => EnumeratesBox

\* a grid search over a box of two values in some dimension returned
C13_Witness ==
  /\ IsCall({"e_best", "a_best", "best_ellipse"}) /\ Returned
  /\ Cardinality(Combos(last.args)) > 1
  /\ last.out.tup # Lower(last.args)

\* C14: a band scorer tests the pixels of the image it is given and only
\* those, with a mask of the image's shape: the pixels considered are
\* [0, H) x [0, W) whatever H and W are.
C14_BandDomain ==
  IsCall({"a_score", "score_annulus"})
    => /\ Scanned = Pixels(last.image.h, last.image.w)
       /\ last.fn = "a_score"
            => a_score_mask(last.image) = <<last.image.h, last.image.w>>
       /\ last.fn = "score_annulus"
            => score_annulus_mask(qphi) = <<last.image.h, last.image.w>>

\* C14, the part that holds: the mask of a_score has the image's shape.
C14_AScoreMask ==
  IsCall({"a_score"})
    => a_score_mask(last.image) = <<last.image.h, last.image.w>>

\* a_score scored an image of another size than its scan
C14_Witness ==
  /\ IsCall({"a_score"}) /\ Returned
  /\ last.image.h # ScanSize
  /\ last.out.num # 0

\* the cells of the map of the call hold the R of test_map
SameKernel ==
  \A p \in Pixels(last.args[7], last.args[7]) :
     last.out.img.px[p]
       = test_map_R(p[1], p[2], last.args[3], last.args[4], last.args[5],
                    last.args[6])[1]

\* C15: test_map, test_map_mie and hg_map compute the same deprojected
\* radius R for the same pixel and the same (inc, rot, x_m, y_m): the same
\* image axis is divided by cos(inc) in all three.
C15_SharedKernel ==
  IsCall({"test_map_mie", "hg_map"}) => SameKernel

\* C15, the part that holds: test_map_mie has the R of test_map.
C15_MieKernel ==
  IsCall({"test_map_mie"}) => SameKernel

\* test_map_mie made a map at an inclination other than 0
C15_Witness ==
  /\ IsCall({"test_map_mie"}) /\ Returned
  /\ last.args[3] # 0
  /\ \E p \in DOMAIN last.out.img.px : last.out.img.px[p] # 0

\* the flat annulus map the claims describe: surf where z is in the band,
\* back elsewhere, in the shape of the image of the call
BandMap ==
  [p \in Pixels(last.image.h, last.image.w) |->
     IF InBand(p[1], p[2], last.args[1], last.args[2], last.args[3],
               last.args[4], last.args[5], last.args[6])
       THEN last.args[7] ELSE last.args[8]]

\* the model map a_surf_score compares the image of the call with
SurfMap ==
  a_surf_map(last.args[1], last.args[2], last.args[3], last.args[4],
             last.args[5], last.args[6], last.args[7], last.args[8],
             last.image)

\* the result of the call is the sum of |image - map| over the pixels of
\* the image, for a map of the image's shape
IsResidual ==
  /\ Returned
  /\ SurfMap.status = "ok"
  /\ SurfMap.img.h = last.image.h /\ SurfMap.img.w = last.image.w
  /\ last.out.num
       = SumOver([p \in DOMAIN last.image.px |->
                    Abs(last.image.px[p] - SurfMap.img.px[p])],
                 DOMAIN last.image.px)
  /\ last.out.num >= 0
  /\ last.out.num = 0 <=> last.image.px = SurfMap.img.px

\* C16: for an image of any shape H x W a residual cost function builds a
\* model map of that shape and returns the sum over the H*W pixels of
\* |image - map|, which is non-negative and 0 exactly when the two agree.
C16_ResidualScoring ==
  IsCall({"a_surf_score"}) => IsResidual

\* C16, the part that holds: a_surf_score on a square image.
C16_SquareResidual ==
  IsCall({"a_surf_score"}) /\ last.image.h = last.image.w => IsResidual

\* a_surf_score returned a non-zero residual for a map with a pixel at surf
C16_Witness ==
  /\ IsCall({"a_surf_score"}) /\ Returned
  /\ last.out.num > 0
  /\ \E p \in DOMAIN SurfMap.img.px : SurfMap.img.px[p] = last.args[7]

\* C17: on a square image, for th >= 1, a_surf_map sets map[i, j] to surf
\* exactly when a_score would add data[i, j] (z strictly between r - th/2
\* and r + th/2) and leaves every other cell at back.
C17_BandMembership ==
  /\ IsCall({"a_surf_map"})
  /\ last.image.h = last.image.w
  /\ last.args[2] >= 1
  => Returned /\ last.out.img.px = BandMap

\* C17, the part that holds: the cells at surf are as many as the pixels
\* of the band, and the others are at back.
C17_BandCount ==
  /\ IsCall({"a_surf_map"})
  /\ last.image.h = last.image.w
  /\ last.args[2] >= 1
  => /\ Returned
     /\ Cardinality({p \in DOMAIN BandMap : BandMap[p] = last.args[7]})
          = Cardinality({p \in DOMAIN last.out.img.px :
                           last.out.img.px[p] = last.args[7]})
     /\ \A p \in DOMAIN last.out.img.px :
           last.out.img.px[p] \in {last.args[7], last.args[8]}

\* a_surf_map drew a band of some but not all pixels of a square image
C17_Witness ==
  /\ IsCall({"a_surf_map"}) /\ Returned
  /\ last.image.h = last.image.w
  /\ last.args[2] >= 1
  /\ \E p \in DOMAIN last.out.img.px : last.out.img.px[p] = last.args[7]
  /\ \E p \in DOMAIN last.out.img.px : last.out.img.px[p] = last.args[8]
====
